---- MODULE Spec2Model ----
(***************************************************************************)
(* Model of the survey dashboard of KnowRise/podcast-surveys               *)
(* (src/src/pages/Dashboard.tsx): the record fetch, the statistics, the    *)
(* filter pipeline, pagination, the bulk-delete selection and the asynchro-*)
(* nous requests to the identity and record-store collaborators.           *)
(*                                                                         *)
(* One action models one handler run to completion on the UI event loop,   *)
(* including the re-render and the passive effects that React flushes      *)
(* before the next event (the applyFilters effect of lines 39-41).  An     *)
(* `await` ends an action; the response is a later action.                 *)
(*                                                                         *)
(* The file holds two variants of the dashboard; the model follows the     *)
(* first (lines 20-422), which has the bulk delete.  The second (lines     *)
(* 446-906) has the same load, statistics, filter and pagination code.     *)
(***************************************************************************)
EXTENDS Integers, Sequences, FiniteSets, Bags, TLC

\* ------------------------------------------------------------------ bounds
\* Number of records the store holds when the dashboard is mounted.
MaxRecords == 11
\* The user only marks records among the MaxMarkId oldest ones (ids 1..MaxMarkId).
MaxMarkId == 2
\* At most this many delete requests are awaited at a time.
MaxPending == 1
\* Page numbers handed to goToPage when it is called directly.
MaxPageArg == 3
\* SpecLoad: the table holds any choice of the records 1..MaxStoreIds ...
MaxStoreIds == 6
\* ... or its MaxLoadLen newest records (three pages at 21).
MaxLoadLen == 21
\* SpecRace: the table holds MaxRaceRecords records and at most
\* MaxRacePending delete requests are awaited at a time.
MaxRaceRecords == 3
MaxRacePending == 2
\* SpecForm: at most MaxInserts insert requests are awaited at a time.
MaxInserts == 2

\* ------------------------------------------------------- program constants
itemsPerPage == 10

\* The null of `suggested_guest: string | null`: a sequence no string equals.
NULL == <<"null">>

\* ------------------------------------------------------------ string model
\* A string is a sequence of one-character strings over {a, A, b, B}.
ToLowerChar(c) ==
    CASE c = "A" -> "a"
      [] c = "B" -> "b"
      [] OTHER -> c

toLowerCase(s) == [i \in 1..Len(s) |-> ToLowerChar(s[i])]

\* String.prototype.includes: t occurs in s as a contiguous substring.
includes(s, t) ==
    \E i \in 0..(Len(s) - Len(t)) : SubSeq(s, i + 1, i + Len(t)) = t

Range(arr) == { arr[i] : i \in DOMAIN arr }

\* Array.prototype.includes
arrayIncludes(arr, x) == \E i \in 1..Len(arr) : arr[i] = x

\* ------------------------------------------------------------ store content
\* The record of the store with creation rank i (1 = oldest).
Survey(i) ==
    [ id |-> i,
      name |-> CASE i % 4 = 0 -> << >>
                 [] i % 4 = 1 -> <<"A">>
                 [] i % 4 = 2 -> <<"b">>
                 [] OTHER     -> <<"a", "B">>,
      topics |-> CASE i % 3 = 0 -> <<"T1", "T2">>
                   [] i % 3 = 1 -> <<"T1">>
                   [] OTHER     -> <<"T2">>,
      description |-> IF i % 5 = 0 THEN <<"B", "a">> ELSE << >>,
      podcast_formats |-> IF i % 3 = 2 THEN <<"F2", "F1">> ELSE <<"F1">>,
      suggested_guest |-> IF i % 6 = 0 THEN <<"A", "b">> ELSE NULL,
      created_at |-> i ]

\* StoreList, answered oldest first.
StoreListOldestFirst(n) == [k \in 1..n |-> Survey(k)]

\* supabase.from("surveys").select("*").order("created_at", {ascending: false})
\* over a table of n records: newest first.
StoreList(n) == [k \in 1..n |-> Survey(n + 1 - k)]

\* What the user may type or pick.
SearchTerms == { << >>, <<"A">> }
TopicChoices == {"all", "T1"}
FormatChoices == {"all", "F2"}
StoreSizes == {0, MaxRecords}

EmptyStats == [l \in {} |-> 0]


\* ------------------------------------------------------------- Aggregator
\* Bump, storing 1 whatever the entry held.
BumpNoAdd(stats, label) ==
    [l \in DOMAIN stats \cup {label} |-> IF l = label THEN 1 ELSE stats[l]]

\* topics[topic] = (topics[topic] || 0) + 1
Bump(stats, label) ==
    [l \in DOMAIN stats \cup {label} |->
        IF l = label
        THEN (IF label \in DOMAIN stats THEN stats[label] ELSE 0) + 1
        ELSE stats[l]]

\* CountLabels, counting the first label of a record only.
CountLabelsFirstOnly(stats, labels) ==
    IF labels = << >> THEN stats ELSE Bump(stats, Head(labels))

\* survey.topics.forEach(...) / survey.podcast_formats.forEach(...)
RECURSIVE CountLabels(_, _)
CountLabels(stats, labels) ==
    IF labels = << >> THEN stats
    ELSE CountLabels(Bump(stats, Head(labels)), Tail(labels))

\* data.forEach(survey => ...) for the `topics` table
RECURSIVE CountTopics(_, _)
CountTopics(stats, data) ==
    IF data = << >> THEN stats
    ELSE CountTopics(CountLabels(stats, Head(data).topics), Tail(data))

\* data.forEach(survey => ...) for the `formats` table
RECURSIVE CountFormats(_, _)
CountFormats(stats, data) ==
    IF data = << >> THEN stats
    ELSE CountFormats(CountLabels(stats, Head(data).podcast_formats), Tail(data))

\* calculateStats(data): the pair <<topics, formats>> it stores.
calculateStats(data) ==
    << CountTopics(EmptyStats, data), CountFormats(EmptyStats, data) >>

\* ----------------------------------------------------------- Filter Engine
TopicPass(s, tf) == arrayIncludes(s.topics, tf)

FormatPass(s, ff) == arrayIncludes(s.podcast_formats, ff)

\* SearchPass, comparing the fields without lower-casing them.
SearchPassCaseSensitive(s, term) ==
    \/ includes(s.name, term)
    \/ includes(s.description, term)
    \/ /\ s.suggested_guest # NULL
       /\ s.suggested_guest # << >>
       /\ includes(s.suggested_guest, term)

\* The search predicate of lines 100-103, term already lower-cased.
SearchPass(s, term) ==
    \/ includes(toLowerCase(s.name), term)
    \/ includes(toLowerCase(s.description), term)
    \/ /\ s.suggested_guest # NULL
       /\ s.suggested_guest # << >>
       /\ includes(toLowerCase(s.suggested_guest), term)

\* filtered, with the topic step applied to the value "all" as well.
filteredNoAllCheck(svs, tf, ff, st) ==
    LET f1 == SelectSeq(svs, LAMBDA s : TopicPass(s, tf))
        f2 == IF ff # "all" THEN SelectSeq(f1, LAMBDA s : FormatPass(s, ff)) ELSE f1
        f3 == IF st # << >>
              THEN SelectSeq(f2, LAMBDA s : SearchPass(s, toLowerCase(st)))
              ELSE f2
    IN  f3

\* filtered, with the result reversed (oldest first).
filteredReversed(svs, tf, ff, st) ==
    LET f1 == IF tf # "all" THEN SelectSeq(svs, LAMBDA s : TopicPass(s, tf)) ELSE svs
        f2 == IF ff # "all" THEN SelectSeq(f1, LAMBDA s : FormatPass(s, ff)) ELSE f1
        f3 == IF st # << >>
              THEN SelectSeq(f2, LAMBDA s : SearchPass(s, toLowerCase(st)))
              ELSE f2
    IN  [k \in 1..Len(f3) |-> f3[Len(f3) + 1 - k]]

\* The local `filtered` of applyFilters after its three steps.
filtered(svs, tf, ff, st) ==
    LET f1 == IF tf # "all" THEN SelectSeq(svs, LAMBDA s : TopicPass(s, tf)) ELSE svs
        f2 == IF ff # "all" THEN SelectSeq(f1, LAMBDA s : FormatPass(s, ff)) ELSE f1
        f3 == IF st # << >>
              THEN SelectSeq(f2, LAMBDA s : SearchPass(s, toLowerCase(st)))
              ELSE f2
    IN  f3

\* ResetPage, forgetting the reset.
ResetPageKeep(cur) == cur

\* setCurrentPage(1) at the end of applyFilters
ResetPage(cur) == 1

\* --------------------------------------------------------------- Paginator
Min(a, b) == IF a < b THEN a ELSE b
Max(a, b) == IF a > b THEN a ELSE b

\* Math.ceil(a / b) for a >= 0, b > 0
Ceil(a, b) == (a + b - 1) \div b

totalPagesOf(fs) == Ceil(Len(fs), itemsPerPage)

\* The argument of setCurrentPage in goToPage
ClampPage(page, tp) == Min(Max(1, page), tp)

\* Array.prototype.slice(from, to) with zero-based, possibly negative bounds
slice(arr, from, to) ==
    LET n == Len(arr)
        f == IF from < 0 THEN Max(n + from, 0) ELSE Min(from, n)
        t == IF to < 0 THEN Max(n + to, 0) ELSE Min(to, n)
    IN  IF f >= t THEN << >> ELSE SubSeq(arr, f + 1, t)

\* startIndex, endIndex and currentSurveys as functions of the page shown
startIndexOf(page) == (page - 1) * itemsPerPage

\* endIndexOf, one short.
endIndexOfOneShort(page) == startIndexOf(page) + itemsPerPage - 1

endIndexOf(page) == startIndexOf(page) + itemsPerPage

SliceOfPage(fs, page) == slice(fs, startIndexOf(page), endIndexOf(page))

\* ------------------------------------------------------- Selection Tracker
\* deleteItems.filter((id) => id !== survey.id)
Unmark(items, id) == SelectSeq(items, LAMBDA x : x # id)

\* [...deleteItems, survey.id]
Mark(items, id) == Append(items, id)

\* The card's onClick
\* ToggleItem, appending whether or not the id is there.
ToggleItemAlwaysMark(items, id) == Mark(items, id)

ToggleItem(items, id) ==
    IF arrayIncludes(items, id) THEN Unmark(items, id) ELSE Mark(items, id)

\* CheckboxChange, applied to what the card's onClick has already stored.
CheckboxChangeAfterClick(items, id, checked) ==
    IF checked THEN Mark(ToggleItem(items, id), id)
    ELSE Unmark(ToggleItem(items, id), id)

\* The checkbox's onChange, e.target.checked being the new checked state
CheckboxChange(items, id, checked) ==
    IF checked THEN Mark(items, id) ELSE Unmark(items, id)

\* ------------------------------------------------------------- Bulk delete
\* SurveysAfterDelete, removing nothing.
SurveysAfterDeleteKeepAll(prev, ids, error) == prev

\* SurveysAfterDelete, removing the records before the answer is known.
SurveysAfterDeleteOptimistic(prev, ids, error) ==
    SelectSeq(prev, LAMBDA s : ~arrayIncludes(ids, s.id))

\* SurveysAfterDelete, removing the first id of the request only.
SurveysAfterDeleteFirstOnly(prev, ids, error) ==
    IF error THEN prev
    ELSE SelectSeq(prev, LAMBDA s : s.id # ids[1])

\* prev.filter((s) => !ids.includes(s.id)) on success; untouched on error
SurveysAfterDelete(prev, ids, error) ==
    IF error THEN prev
    ELSE SelectSeq(prev, LAMBDA s : ~arrayIncludes(ids, s.id))

\* DeleteItemsAfterDelete, the marks being kept.
DeleteItemsAfterDeleteKeep(items, ids, error) == items

\* setDeleteItems([]) on success; untouched on error
DeleteItemsAfterDelete(items, ids, error) ==
    IF error THEN items ELSE << >>

\* ------------------------------------------------------------------ state
VARIABLES
    surveys,          \* useState<Survey[]>([])            line 21
    filteredSurveys,  \* useState<Survey[]>([])            line 22
    loading,          \* useState(true)                    line 23
    topicFilter,      \* useState("all")                   line 24
    formatFilter,     \* useState("all")                   line 25
    searchTerm,       \* useState("")                      line 26
    topicStats,       \* useState<Stats>({})               line 27
    formatStats,      \* useState<Stats>({})               line 28
    currentPage,      \* useState(1)                       line 29
    deleteItems,      \* useState<string[]>([])            line 32
    phase,            \* "constructed", "mounted" or "unmounted" (after navigate)
    authPending,      \* supabase.auth.getSession() awaited by checkAuth
    fetchPending,     \* the select awaited by fetchSurveys
    pendingDeletes,   \* bag of the id arrays of the delete requests being awaited
    consoleErrors     \* the messages written with console.error so far

viewVars == << surveys, filteredSurveys, loading, topicFilter, formatFilter,
               searchTerm, topicStats, formatStats, currentPage, deleteItems >>

asyncVars == << phase, authPending, fetchPending, pendingDeletes >>

vars == << viewVars, asyncVars, consoleErrors >>

FetchErrorMessage == "Error fetching surveys:"
DeleteErrorMessage == "Error deleting surveys:"

\* Derived on every render (lines 129-140)
uniqueTopics == UNION { Range(surveys[k].topics) : k \in DOMAIN surveys }
uniqueFormats == UNION { Range(surveys[k].podcast_formats) : k \in DOMAIN surveys }
totalPages == totalPagesOf(filteredSurveys)
startIndex == startIndexOf(currentPage)
endIndex == endIndexOf(currentPage)
currentSurveys == SliceOfPage(filteredSurveys, currentPage)

\* ------------------------------------------------------------------- Init
\* The component as constructed: the useState initial values, nothing awaited.
Init ==
    /\ surveys = << >>
    /\ filteredSurveys = << >>
    /\ loading = TRUE
    /\ topicFilter = "all"
    /\ formatFilter = "all"
    /\ searchTerm = << >>
    /\ topicStats = EmptyStats
    /\ formatStats = EmptyStats
    /\ currentPage = 1
    /\ deleteItems = << >>
    /\ phase = "constructed"
    /\ authPending = FALSE
    /\ fetchPending = FALSE
    /\ pendingDeletes = EmptyBag
    /\ consoleErrors = {}

\* ---------------------------------------------------------------- effects
\* useEffect(() => { applyFilters() }, [surveys, topicFilter, formatFilter,
\* searchTerm]): runs after a render in which a dependency changed, and
\* applyFilters stores `filtered` and resets the page.
applyFiltersKeepPage ==
    /\ filteredSurveys' = filtered(surveys', topicFilter', formatFilter', searchTerm')
    /\ currentPage' = currentPage

applyFilters ==
    /\ filteredSurveys' = filtered(surveys', topicFilter', formatFilter', searchTerm')
    /\ currentPage' = ResetPage(currentPage)

FiltersEffect(depsChanged) ==
    IF depsChanged THEN applyFilters
    ELSE UNCHANGED << filteredSurveys, currentPage >>

\* ------------------------------------------------------------------- load
\* Mount: both effects run.  checkAuth and fetchSurveys start and suspend at
\* their await; applyFilters runs on the empty collection.
Mount ==
    /\ phase = "constructed"
    /\ phase' = "mounted"
    /\ authPending' = TRUE
    /\ fetchPending' = TRUE
    /\ loading' = TRUE
    /\ UNCHANGED << surveys, topicFilter, formatFilter, searchTerm >>
    /\ applyFilters
    /\ UNCHANGED << topicStats, formatStats, deleteItems, pendingDeletes >>
    /\ UNCHANGED consoleErrors

\* navigate("/login?admin") replaces the dashboard route: the component is
\* unmounted and its state discarded; what is still awaited resolves into
\* state setters that do nothing.
Unmount ==
    /\ phase' = "unmounted"
    /\ surveys' = << >>
    /\ filteredSurveys' = << >>
    /\ loading' = TRUE
    /\ topicFilter' = "all"
    /\ formatFilter' = "all"
    /\ searchTerm' = << >>
    /\ topicStats' = EmptyStats
    /\ formatStats' = EmptyStats
    /\ currentPage' = 1
    /\ deleteItems' = << >>
    /\ fetchPending' = FALSE
    /\ pendingDeletes' = EmptyBag
    /\ consoleErrors' = {}

\* checkAuth after its await.
checkAuth(hasSession) ==
    /\ phase = "mounted"
    /\ authPending
    /\ authPending' = FALSE
    /\ IF hasSession
       THEN UNCHANGED << viewVars, phase, fetchPending, pendingDeletes, consoleErrors >>
       ELSE Unmount

\* LoadingAfterFetch, with setLoading(false) in the success branch only.
LoadingAfterFetchOnSuccessOnly(error) == error

\* setLoading(false) after the if / else if of fetchSurveys
LoadingAfterFetch(error) == FALSE

\* fetchSurveys after its await; data is what the select answered with.
fetchSurveys(error, data) ==
    /\ phase = "mounted"
    /\ fetchPending
    /\ fetchPending' = FALSE
    /\ loading' = LoadingAfterFetch(error)
    /\ UNCHANGED << phase, authPending, pendingDeletes >>
    /\ UNCHANGED << topicFilter, formatFilter, searchTerm, deleteItems >>
    /\ IF error
       THEN UNCHANGED << surveys, topicStats, formatStats, filteredSurveys, currentPage >>
       ELSE /\ surveys' = data
            /\ topicStats' = calculateStats(data)[1]
            /\ formatStats' = calculateStats(data)[2]
            /\ FiltersEffect(TRUE)
    /\ consoleErrors' = IF error THEN consoleErrors \cup {FetchErrorMessage} ELSE consoleErrors

\* The loaded dashboard is rendered and reacts to the user.
Interactive == phase = "mounted" /\ ~loading

\* --------------------------------------------------------- filter inputs
FilterStateChanged ==
    << topicFilter', formatFilter', searchTerm' >> # << topicFilter, formatFilter, searchTerm >>

FrameOfFilterEdit ==
    UNCHANGED << surveys, loading, topicStats, formatStats, deleteItems, asyncVars >>

\* <select value={topicFilter} onChange={(e) => setTopicFilter(e.target.value)}>
setTopicFilter(v) ==
    /\ Interactive
    /\ v \in {"all"} \cup uniqueTopics
    /\ v # topicFilter
    /\ topicFilter' = v
    /\ UNCHANGED << formatFilter, searchTerm >>
    /\ FrameOfFilterEdit
    /\ FiltersEffect(FilterStateChanged)
    /\ UNCHANGED consoleErrors

\* <select value={formatFilter} onChange={(e) => setFormatFilter(e.target.value)}>
setFormatFilter(v) ==
    /\ Interactive
    /\ v \in {"all"} \cup uniqueFormats
    /\ v # formatFilter
    /\ formatFilter' = v
    /\ UNCHANGED << topicFilter, searchTerm >>
    /\ FrameOfFilterEdit
    /\ FiltersEffect(FilterStateChanged)
    /\ UNCHANGED consoleErrors

\* <input value={searchTerm} onChange={(e) => setSearchTerm(e.target.value)}>
setSearchTerm(v) ==
    /\ Interactive
    /\ v # searchTerm
    /\ searchTerm' = v
    /\ UNCHANGED << topicFilter, formatFilter >>
    /\ FrameOfFilterEdit
    /\ FiltersEffect(FilterStateChanged)
    /\ UNCHANGED consoleErrors

\* ClearFilters, leaving the search term.
ClearFiltersKeepSearch ==
    /\ Interactive
    /\ topicFilter' = "all"
    /\ formatFilter' = "all"
    /\ searchTerm' = searchTerm
    /\ FrameOfFilterEdit
    /\ FiltersEffect(FilterStateChanged)
    /\ UNCHANGED consoleErrors

\* The Clear Filters button.  When the three values are already the
\* defaults no state changes and the effect does not run.
ClearFilters ==
    /\ Interactive
    /\ topicFilter' = "all"
    /\ formatFilter' = "all"
    /\ searchTerm' = << >>
    /\ FrameOfFilterEdit
    /\ FiltersEffect(FilterStateChanged)
    /\ UNCHANGED consoleErrors

\* -------------------------------------------------------- page navigation
\* goToPage, clearing the selection as it changes the page.
goToPageClearingMarks(page) ==
    /\ currentPage' = ClampPage(page, totalPages)
    /\ deleteItems' = << >>
    /\ UNCHANGED << surveys, filteredSurveys, loading, topicFilter, formatFilter,
                    searchTerm, topicStats, formatStats, asyncVars >>
    /\ UNCHANGED consoleErrors

\* goToPage(page), with the totalPages of the render it was created in.
goToPage(page) ==
    /\ currentPage' = ClampPage(page, totalPages)
    /\ UNCHANGED << surveys, filteredSurveys, loading, topicFilter, formatFilter,
                    searchTerm, topicStats, formatStats, deleteItems, asyncVars >>
    /\ UNCHANGED consoleErrors

\* The pagination controls are rendered for a non-empty filtered view of
\* more than one page; a disabled button fires no click.
ControlsShown == Interactive /\ Len(filteredSurveys) # 0 /\ totalPages > 1

ClickFirst == ControlsShown /\ currentPage # 1 /\ goToPage(1)

ClickPrev == ControlsShown /\ currentPage # 1 /\ goToPage(currentPage - 1)

ClickNext == ControlsShown /\ currentPage # totalPages /\ goToPage(currentPage + 1)

ClickLast == ControlsShown /\ currentPage # totalPages /\ goToPage(totalPages)

\* ---------------------------------------------------------------- marking
\* FrameOfToggle, going back to the first page.
FrameOfToggleFirstPage ==
    /\ currentPage' = 1
    /\ UNCHANGED << surveys, filteredSurveys, loading, topicFilter, formatFilter,
                    searchTerm, topicStats, formatStats, asyncVars >>

\* What the two toggle handlers leave alone: all but deleteItems.
FrameOfToggle ==
    UNCHANGED << surveys, filteredSurveys, loading, topicFilter, formatFilter,
                 searchTerm, topicStats, formatStats, currentPage, asyncVars >>

\* A click on the card at position pos of the displayed page.
CardClick(pos) ==
    /\ Interactive
    /\ pos \in 1..Len(currentSurveys)
    /\ LET id == currentSurveys[pos].id
       IN  /\ deleteItems' = ToggleItem(deleteItems, id)
           /\ UNCHANGED consoleErrors
    /\ currentSurveys[pos].id <= MaxMarkId
    /\ FrameOfToggle

\* A click on the checkbox of that card: its onChange and, as the click
\* bubbles, the card's onClick both run in the same event with the
\* deleteItems of the same render; the later setDeleteItems stays.
CheckboxClick(pos) ==
    /\ Interactive
    /\ pos \in 1..Len(currentSurveys)
    /\ LET id == currentSurveys[pos].id
           byChange == CheckboxChange(deleteItems, id, ~arrayIncludes(deleteItems, id))
           byClick == ToggleItem(deleteItems, id)
       IN  /\ \E last \in {byChange, byClick} : deleteItems' = last
           /\ UNCHANGED consoleErrors
    /\ currentSurveys[pos].id <= MaxMarkId
    /\ FrameOfToggle

\* ------------------------------------------------------------ bulk delete
\* DeleteShown, the button being rendered whatever is marked.
DeleteShownAlways == Interactive

\* The Delete Selected button is rendered while deleteItems is not empty.
DeleteShown == Interactive /\ Len(deleteItems) > 0

\* DeleteDeclined, sending the request whatever the answer.
DeleteDeclinedSendsRequest ==
    /\ DeleteShown
    /\ BagCardinality(pendingDeletes) < MaxPending
    /\ pendingDeletes' = pendingDeletes (+) SetToBag({deleteItems})
    /\ UNCHANGED << viewVars, phase, authPending, fetchPending >>
    /\ UNCHANGED consoleErrors

\* handleDeleteSurvey(deleteItems), window.confirm answered with Cancel.
DeleteDeclined ==
    /\ DeleteShown
    /\ UNCHANGED << viewVars, asyncVars >>
    /\ UNCHANGED consoleErrors

\* handleDeleteSurvey(deleteItems), window.confirm answered with OK: the
\* request is sent and the handler suspends.
\* At most cap requests are awaited at a time.
RequestDelete(cap) ==
    /\ DeleteShown
    /\ BagCardinality(pendingDeletes) < cap
    /\ pendingDeletes' = pendingDeletes (+) SetToBag({deleteItems})
    /\ UNCHANGED << viewVars, phase, authPending, fetchPending >>
    /\ UNCHANGED consoleErrors

DeleteConfirmed == RequestDelete(MaxPending)

\* handleDeleteSurvey after its await, for a pending request with array ids.
handleDeleteSurvey(ids, error) ==
    /\ phase = "mounted"
    /\ BagIn(ids, pendingDeletes)
    /\ pendingDeletes' = pendingDeletes (-) SetToBag({ids})
    /\ UNCHANGED << phase, authPending, fetchPending >>
    /\ UNCHANGED << loading, topicFilter, formatFilter, searchTerm,
                    topicStats, formatStats >>
    /\ surveys' = SurveysAfterDelete(surveys, ids, error)
    /\ deleteItems' = DeleteItemsAfterDelete(deleteItems, ids, error)
    /\ FiltersEffect(~error)
    /\ consoleErrors' = IF error THEN consoleErrors \cup {DeleteErrorMessage} ELSE consoleErrors

\* ------------------------------------------------------------ SurveyForm
\* The survey form page (SurveyForm, both variants) under the ThemeProvider.
VARIABLES
    formData,        \* useState<FormData>({...})         lines 946-952
    formLoading,     \* SurveyForm's useState(false), `loading`     line 953
    formSuccess,     \* SurveyForm's useState(false), `success`     line 954
    formError,       \* SurveyForm's useState(""), `error`          line 955
    insertRequests,  \* the rows of the insert requests being awaited
    theme,           \* ThemeProvider's useState               part_000 24
    storedTheme,     \* localStorage item "theme": {} when absent, else {value}
    themeMounted     \* ThemeProvider's effects have run

formVars == << formData, formLoading, formSuccess, formError, insertRequests >>

themeVars == << theme, storedTheme, themeMounted >>

pageVars == << formVars, themeVars >>

\* The dashboard's steps happen on another page.
Elsewhere == UNCHANGED pageVars

\* What the user may tick and type.
TOPICS == {"T1", "T2"}
PODCAST_FORMATS == {"F1"}
NameTexts == { << >>, <<"N">> }
DescriptionTexts == { << >>, <<"D">> }
GuestTexts == { << >>, <<"G">> }

EmptyForm ==
    [name |-> << >>, topics |-> << >>, description |-> << >>,
     podcast_formats |-> << >>, suggested_guest |-> << >>]

TopicMessage == "Please select at least one topic"
FormatMessage == "Please select at least one podcast format"
FallbackMessage == "An error occurred"
StoreMessage == "store error message"

\* How an awaited insert ends: without error, with an error that is an
\* instance of Error (its message is shown), or with another error object.
InsertOutcomes == {"ok", "Error", "object"}

\* ValidationError, the formats not being looked at.
ValidationErrorTopicsOnly(data) ==
    IF Len(data.topics) = 0 THEN TopicMessage ELSE ""

\* The two checks at the head of handleSubmit: the message set, "" if none.
ValidationError(data) ==
    IF Len(data.topics) = 0 THEN TopicMessage
    ELSE IF Len(data.podcast_formats) = 0 THEN FormatMessage
    ELSE ""

\* The row handed to insert: suggested_guest || null
InsertRow(data) ==
    [name |-> data.name, topics |-> data.topics, description |-> data.description,
     podcast_formats |-> data.podcast_formats,
     suggested_guest |-> IF data.suggested_guest = << >> THEN NULL
                         ELSE data.suggested_guest]

\* err instanceof Error ? err.message : "An error occurred"
ErrorText(outcome) == IF outcome = "Error" THEN StoreMessage ELSE FallbackMessage

FormInit ==
    /\ formData = EmptyForm
    /\ formLoading = FALSE
    /\ formSuccess = FALSE
    /\ formError = ""
    /\ insertRequests = << >>

FrameOfFormEdit ==
    /\ UNCHANGED << formLoading, formSuccess, formError, insertRequests >>
    /\ UNCHANGED << themeVars, vars >>

\* onChange of the three text inputs
setName(v) ==
    /\ v # formData.name
    /\ formData' = [formData EXCEPT !.name = v]
    /\ FrameOfFormEdit

setDescription(v) ==
    /\ v # formData.description
    /\ formData' = [formData EXCEPT !.description = v]
    /\ FrameOfFormEdit

setSuggestedGuest(v) ==
    /\ v # formData.suggested_guest
    /\ formData' = [formData EXCEPT !.suggested_guest = v]
    /\ FrameOfFormEdit

\* handleCheckboxChange(field, value)
handleCheckboxChange(field, value) ==
    /\ formData' = [formData EXCEPT ![field] = ToggleItem(formData[field], value)]
    /\ FrameOfFormEdit

\* SubmitEnabled, the button never being disabled.
SubmitEnabledAlways == TRUE

\* <button type="submit" disabled={loading}>
SubmitEnabled == ~formLoading

\* handleSubmit, success not being reset at its head.
handleSubmitKeepsSuccess ==
    /\ SubmitEnabled
    /\ UNCHANGED formSuccess
    /\ IF ValidationError(formData) # ""
       THEN /\ formError' = ValidationError(formData)
            /\ UNCHANGED << formLoading, insertRequests >>
       ELSE /\ Len(insertRequests) < MaxInserts
            /\ formError' = ""
            /\ formLoading' = TRUE
            /\ insertRequests' = Append(insertRequests, InsertRow(formData))
    /\ UNCHANGED << formData, themeVars, vars >>

\* handleSubmit up to its return or its await.
handleSubmit ==
    /\ SubmitEnabled
    /\ formSuccess' = FALSE
    /\ IF ValidationError(formData) # ""
       THEN /\ formError' = ValidationError(formData)
            /\ UNCHANGED << formLoading, insertRequests >>
       ELSE /\ Len(insertRequests) < MaxInserts
            /\ formError' = ""
            /\ formLoading' = TRUE
            /\ insertRequests' = Append(insertRequests, InsertRow(formData))
    /\ UNCHANGED << formData, themeVars, vars >>

\* handleSubmit after its await: the oldest request is answered.
handleSubmitResumed(outcome) ==
    /\ insertRequests # << >>
    /\ insertRequests' = Tail(insertRequests)
    /\ IF outcome = "ok"
       THEN /\ formSuccess' = TRUE
            /\ formData' = EmptyForm
            /\ UNCHANGED formError
       ELSE /\ formError' = ErrorText(outcome)
            /\ UNCHANGED << formSuccess, formData >>
    /\ formLoading' = FALSE
    /\ UNCHANGED << themeVars, vars >>

\* --------------------------------------------------------- ThemeProvider
\* What an earlier visit (or anything else) may have left under "theme".
PersistedThemes == { {}, {""}, {"light"}, {"dark"}, {"blue"} }

\* (localStorage.getItem('theme') as Theme) || 'light'
InitialTheme(item) ==
    IF item = {} \/ item = {""} THEN "light" ELSE CHOOSE v \in item : TRUE

\* prev === 'light' ? 'dark' : 'light'
Toggled(prev) == IF prev = "light" THEN "dark" ELSE "light"

ThemeInitWith(item) ==
    /\ storedTheme = item
    /\ theme = InitialTheme(item)
    /\ themeMounted = FALSE

ThemeInit == \E item \in PersistedThemes : ThemeInitWith(item)

\* The effect of the first render: localStorage.setItem('theme', theme)
ThemeProviderMount ==
    /\ ~themeMounted
    /\ themeMounted' = TRUE
    /\ storedTheme' = {theme}
    /\ UNCHANGED << theme, formVars, vars >>

\* toggleTheme, and the effect that follows the change of theme.
toggleTheme ==
    /\ themeMounted
    /\ theme' = Toggled(theme)
    /\ storedTheme' = {theme'}
    /\ UNCHANGED << themeMounted, formVars, vars >>

NextForm ==
    \/ \E v \in NameTexts : setName(v)
    \/ \E v \in DescriptionTexts : setDescription(v)
    \/ \E v \in GuestTexts : setSuggestedGuest(v)
    \/ \E value \in TOPICS : handleCheckboxChange("topics", value)
    \/ \E value \in PODCAST_FORMATS : handleCheckboxChange("podcast_formats", value)
    \/ handleSubmit
    \/ \E outcome \in InsertOutcomes : handleSubmitResumed(outcome)
    \/ ThemeProviderMount
    \/ toggleTheme

\* The form page as constructed, whatever the browser holds under "theme";
\* the dashboard is not rendered.
InitForm == Init /\ FormInit /\ ThemeInit

SpecForm == InitForm /\ [][NextForm]_pageVars

\* The dashboard's specifications leave the form page as constructed, in a
\* browser that holds no "theme" item.
InitDashboard == Init /\ FormInit /\ ThemeInitWith({})

\* ------------------------------------------------------------------- Next
Next ==
    \/ Mount /\ Elsewhere
    \/ \E hasSession \in BOOLEAN : checkAuth(hasSession) /\ Elsewhere
    \/ fetchSurveys(TRUE, << >>) /\ Elsewhere
    \/ \E n \in StoreSizes : fetchSurveys(FALSE, StoreList(n)) /\ Elsewhere
    \/ \E v \in TopicChoices : setTopicFilter(v) /\ Elsewhere
    \/ \E v \in FormatChoices : setFormatFilter(v) /\ Elsewhere
    \/ \E v \in SearchTerms : setSearchTerm(v) /\ Elsewhere
    \/ ClearFilters /\ Elsewhere
    \/ ClickFirst /\ Elsewhere
    \/ ClickPrev /\ Elsewhere
    \/ ClickNext /\ Elsewhere
    \/ ClickLast /\ Elsewhere
    \/ \E pos \in 1..itemsPerPage : CardClick(pos) /\ Elsewhere
    \/ \E pos \in 1..itemsPerPage : CheckboxClick(pos) /\ Elsewhere
    \/ DeleteDeclined /\ Elsewhere
    \/ DeleteConfirmed /\ Elsewhere
    \/ \E ids \in BagToSet(pendingDeletes), error \in BOOLEAN :
           handleDeleteSurvey(ids, error) /\ Elsewhere

Spec == InitDashboard /\ [][Next]_vars

\* goToPage called directly, with any page number, whatever is rendered.
CallGoToPage(n) == phase = "mounted" /\ goToPage(n)

PageArgs == (0 - MaxPageArg)..MaxPageArg

NextNav ==
    \/ Next
    \/ \E n \in PageArgs : CallGoToPage(n) /\ Elsewhere

SpecNav == InitDashboard /\ [][NextNav]_vars

TypeOK ==
    /\ loading \in BOOLEAN
    /\ currentPage \in Int
    /\ phase \in {"constructed", "mounted", "unmounted"}
    /\ authPending \in BOOLEAN
    /\ fetchPending \in BOOLEAN
    /\ topicFilter \in TopicChoices
    /\ formatFilter \in FormatChoices
    /\ searchTerm \in SearchTerms
    /\ consoleErrors \subseteq {FetchErrorMessage, DeleteErrorMessage}
    /\ BagCardinality(pendingDeletes) <= MaxPending

\* The dashboard is rendered (not the "Loading..." placeholder).
Rendered == phase = "mounted" /\ ~loading

Ids(svs) == { svs[k].id : k \in DOMAIN svs }

\* ----------------------------------------------------------------- C1
\* Number of records of svs whose topics (podcast_formats) contain label.
TopicCount(svs, label) ==
    Cardinality({ k \in DOMAIN svs : label \in Range(svs[k].topics) })

FormatCount(svs, label) ==
    Cardinality({ k \in DOMAIN svs : label \in Range(svs[k].podcast_formats) })

\* stats[label], a label without an entry counting as 0
StatAt(stats, label) == IF label \in DOMAIN stats THEN stats[label] ELSE 0

\* C1: in every rendered state, also after successful bulk deletes, the
\* entry of each label in topicStats and formatStats is the number of
\* current records whose topics / podcast_formats contain the label.
C1_StatsCountCurrentRecords ==
    Rendered =>
        /\ \A l \in DOMAIN topicStats \cup uniqueTopics :
               StatAt(topicStats, l) = TopicCount(surveys, l)
        /\ \A l \in DOMAIN formatStats \cup uniqueFormats :
               StatAt(formatStats, l) = FormatCount(surveys, l)

\* ----------------------------------------------------------------- C2
\* C2: in every reachable state 1 <= currentPage <= max(totalPages, 1).
C2_PageInRange ==
    /\ 1 <= currentPage
    /\ currentPage <= Max(totalPages, 1)

\* The user has navigated to the second of two pages.
C2_Witness ==
    /\ Rendered
    /\ currentPage = 2
    /\ totalPages = 2

\* ----------------------------------------------------------------- C3
\* The least k with k * itemsPerPage >= len.
CeilingOfPages(len) ==
    CHOOSE k \in 0..len : /\ k * itemsPerPage >= len
                          /\ \A j \in 0..len : j * itemsPerPage >= len => k <= j

\* C3: for the filtered collection of every rendered state, of length L,
\* totalPages = max(ceil(L / 10), 1); it is 1 when the collection is empty.
C3_TotalPagesAtLeastOne ==
    Rendered => totalPages = Max(CeilingOfPages(Len(filteredSurveys)), 1)

\* ----------------------------------------------------------------- C4
\* C4: goToPage(n), for any integer n and in any state, sets currentPage to
\* n clamped to 1..totalPages, totalPages being at least 1.
C4_GoToPageClamps ==
    [][ \A n \in PageArgs :
          CallGoToPage(n) =>
              /\ currentPage' = Min(Max(n, 1), Max(totalPages, 1))
              /\ 1 <= currentPage'
              /\ currentPage' <= Max(totalPages, 1) ]_vars

\* ----------------------------------------------------------------- C5
\* C5: when a bulk delete request succeeds, no id of the request is left in
\* records nor in the filtered view, and the selection is empty.
C5_DeleteRemovesRequestedIds ==
    [][ \A ids \in BagToSet(pendingDeletes) :
          handleDeleteSurvey(ids, FALSE) =>
              /\ Ids(surveys') \cap Range(ids) = {}
              /\ Ids(filteredSurveys') \cap Range(ids) = {}
              /\ deleteItems' = << >> ]_vars

\* Some records were deleted, the others are left and nothing is marked.
C5_Witness ==
    /\ Rendered
    /\ Len(surveys) > 0
    /\ Len(surveys) < MaxRecords
    /\ deleteItems = << >>
    /\ pendingDeletes = EmptyBag

\* ----------------------------------------------------------------- C6
\* C6: when a bulk delete request fails, records, the filtered view, the
\* selection, the filter state, currentPage and the stats are unchanged.
C6_FailedDeleteChangesNothing ==
    [][ \A ids \in BagToSet(pendingDeletes) :
          handleDeleteSurvey(ids, TRUE) =>
              UNCHANGED << surveys, filteredSurveys, deleteItems, topicFilter,
                           formatFilter, searchTerm, currentPage, topicStats,
                           formatStats >> ]_vars

\* A delete request has failed; every record and the marks are still there.
C6_Witness ==
    /\ Rendered
    /\ DeleteErrorMessage \in consoleErrors
    /\ Len(surveys) = MaxRecords
    /\ deleteItems # << >>
    /\ pendingDeletes = EmptyBag

\* ----------------------------------------------------------------- C7
\* The step is a click on the card or the checkbox of record id.
IsToggleOf(id) ==
    \E pos \in 1..itemsPerPage :
        /\ pos <= Len(currentSurveys)
        /\ currentSurveys[pos].id = id
        /\ (CardClick(pos) \/ CheckboxClick(pos))

\* The step is the success of a delete request that names record id.
IsSuccessfulDeleteOf(id) ==
    \E ids \in BagToSet(pendingDeletes) :
        /\ arrayIncludes(ids, id)
        /\ handleDeleteSurvey(ids, FALSE)

\* C7: while the dashboard is mounted, a marked id leaves the selection
\* only by being unmarked or by a successful delete of that record.
C7_MarkedUntilUnmarkedOrDeleted ==
    [][ phase' = "mounted" =>
          \A id \in Range(deleteItems) :
              id \notin Range(deleteItems') =>
                  IsToggleOf(id) \/ IsSuccessfulDeleteOf(id) ]_vars

\* ----------------------------------------------------------------- C8
\* C8: when the session check reports no session and the dashboard
\* redirects, records and stats are (still) empty.
C8_NoSessionNoRecords ==
    [][ checkAuth(FALSE) =>
          /\ phase' = "unmounted"
          /\ surveys = << >>
          /\ topicStats = EmptyStats
          /\ formatStats = EmptyStats ]_vars

\* ----------------------------------------------------------------- C9
\* C9: a step of the mounted dashboard that changes topicFilter,
\* formatFilter, searchTerm or the records ends with currentPage = 1.
C9_ChangeResetsPage ==
    [][ (phase' = "mounted" /\ (FilterStateChanged \/ surveys' # surveys))
          => currentPage' = 1 ]_vars

\* Two filters are set on a collection of more than one page, or a record
\* of such a collection was deleted; the first page is shown.
C9_Witness ==
    /\ Rendered
    /\ currentPage = 1
    /\ \/ topicFilter # "all" /\ searchTerm # << >> /\ Len(surveys) > itemsPerPage
       \/ Len(surveys) = MaxRecords - 1

\* ---------------------------------------------------------------- C10
\* t occurs in s when case is ignored.
ContainsIgnoringCase(s, t) ==
    \E off \in 0..Len(s) :
        /\ off + Len(t) <= Len(s)
        /\ \A j \in 1..Len(t) : ToLowerChar(s[off + j]) = ToLowerChar(t[j])

\* The record passes the three predicates of the filter state.
Matches(r) ==
    /\ topicFilter = "all" \/ topicFilter \in Range(r.topics)
    /\ formatFilter = "all" \/ formatFilter \in Range(r.podcast_formats)
    /\ \/ searchTerm = << >>
       \/ ContainsIgnoringCase(r.name, searchTerm)
       \/ ContainsIgnoringCase(r.description, searchTerm)
       \/ r.suggested_guest # NULL /\ ContainsIgnoringCase(r.suggested_guest, searchTerm)

\* C10: the filtered view is exactly the records that pass the topic
\* filter, the format filter and the case-insensitive search, in order.
C10_FilteredViewExact ==
    filteredSurveys = SelectSeq(surveys, Matches)

\* A search is active; it keeps a record without suggested_guest, a record
\* matching on its guest only, and drops some record.
C10_Witness ==
    /\ Rendered
    /\ searchTerm # << >>
    /\ \E k \in DOMAIN filteredSurveys : filteredSurveys[k].suggested_guest = NULL
    /\ \E k \in DOMAIN filteredSurveys :
           /\ filteredSurveys[k].suggested_guest # NULL
           /\ ~ContainsIgnoringCase(filteredSurveys[k].name, searchTerm)
           /\ ~ContainsIgnoringCase(filteredSurveys[k].description, searchTerm)
    /\ Len(filteredSurveys) < Len(surveys)

\* ------------------------------------------------ loading any collection
\* The select of fetchSurveys answers with whatever the table holds, newest
\* first: any choice of the records 1..MaxStoreIds, or the MaxLoadLen (or
\* fewer) newest records.  The filters offer every label and search term.
SubList(S) == SelectSeq(StoreList(MaxStoreIds), LAMBDA s : s.id \in S)

LoadedCollections ==
    {SubList(S) : S \in SUBSET (1..MaxStoreIds)} \cup {StoreList(n) : n \in 0..MaxLoadLen}

LoadTopicChoices == {"all", "T1", "T2"}
LoadFormatChoices == {"all", "F1", "F2"}
LoadSearchTerms == {<< >>, <<"A">>, <<"b">>}

NextLoad ==
    \/ Mount /\ Elsewhere
    \/ \E data \in LoadedCollections : fetchSurveys(FALSE, data) /\ Elsewhere
    \/ \E v \in LoadTopicChoices : setTopicFilter(v) /\ Elsewhere
    \/ \E v \in LoadFormatChoices : setFormatFilter(v) /\ Elsewhere
    \/ \E v \in LoadSearchTerms : setSearchTerm(v) /\ Elsewhere
    \/ ClearFilters /\ Elsewhere
    \/ ClickFirst /\ Elsewhere
    \/ ClickPrev /\ Elsewhere
    \/ ClickNext /\ Elsewhere
    \/ ClickLast /\ Elsewhere

SpecLoad == InitDashboard /\ [][NextLoad]_vars

\* ---------------------------------------------------------------- C11
\* PositionIn(arr, x): where x stands in arr (the records of a collection
\* are pairwise distinct).
PositionIn(arr, x) == CHOOSE k \in DOMAIN arr : arr[k] = x

\* sub holds records of arr only, each once, in the order they have in arr.
IsSubsequence(sub, arr) ==
    /\ \A k \in DOMAIN sub : sub[k] \in Range(arr)
    /\ \A j, k \in DOMAIN sub :
           j < k => PositionIn(arr, sub[j]) < PositionIn(arr, sub[k])

Unconstrained == topicFilter = "all" /\ formatFilter = "all" /\ searchTerm = << >>

\* C11: whatever the collection and the filter state, the filtered view is
\* a subsequence of the records (same relative order, nothing added, nothing
\* twice), and with the unconstrained filter state it is the records.
C11_FilterIsSubsequence ==
    Rendered =>
        /\ IsSubsequence(filteredSurveys, surveys)
        /\ Unconstrained => filteredSurveys = surveys

\* A constrained view that drops records from the middle and keeps several.
C11_Witness ==
    /\ Rendered
    /\ ~Unconstrained
    /\ Len(filteredSurveys) >= 2
    /\ Len(filteredSurveys) < Len(surveys)
    /\ \E k \in 2..(Len(surveys) - 1) :
           /\ surveys[k] \notin Range(filteredSurveys)
           /\ surveys[k - 1] \in Range(filteredSurveys)
           /\ surveys[k + 1] \in Range(filteredSurveys)

\* ---------------------------------------------------------------- C12
\* C12: filtering the filtered view again with the same filter state gives
\* the filtered view.
C12_FilterIdempotent ==
    Rendered =>
        filtered(filteredSurveys, topicFilter, formatFilter, searchTerm)
            = filteredSurveys

\* A view that each of the three steps has shortened.
C12_Witness ==
    /\ Rendered
    /\ topicFilter # "all" /\ formatFilter # "all" /\ searchTerm # << >>
    /\ Len(filteredSurveys) >= 2
    /\ Len(filteredSurveys) < Len(filtered(surveys, topicFilter, formatFilter, << >>))
    /\ Len(filtered(surveys, topicFilter, formatFilter, << >>))
           < Len(filtered(surveys, topicFilter, "all", << >>))
    /\ Len(filtered(surveys, topicFilter, "all", << >>)) < Len(surveys)
\* ---------------------------------------------------------------- C13
\* The slices shown for pages p..tp, one after the other.
RECURSIVE PagesConcat(_, _, _)
PagesConcat(fs, p, tp) ==
    IF p > tp THEN << >>
    ELSE SliceOfPage(fs, p) \o PagesConcat(fs, p + 1, tp)

\* C13: the slices shown for currentPage = 1..totalPages, taken in page
\* order, make up the filtered view exactly (every record on one page, no
\* overlap, no gap), and the slice of page p runs from offset (p-1)*10 up to
\* min((p-1)*10 + 10, L), exclusive.
C13_PagesPartitionView ==
    Rendered =>
        /\ PagesConcat(filteredSurveys, 1, totalPages) = filteredSurveys
        /\ \A p \in 1..totalPages :
               LET from == (p - 1) * 10
                   to == Min((p - 1) * 10 + 10, Len(filteredSurveys))
               IN  SliceOfPage(filteredSurveys, p)
                       = [k \in 1..(to - from) |-> filteredSurveys[from + k]]

\* The last of three pages is shown and is shorter than a full page.
C13_Witness ==
    /\ Rendered
    /\ totalPages = 3
    /\ currentPage = 3
    /\ Len(currentSurveys) \in 1..(itemsPerPage - 1)
\* ---------------------------------------------------------------- C14
\* The labels a table may hold; T3 and F3 are in no record.
TopicLabels == {"T1", "T2", "T3"}
FormatLabels == {"F1", "F2", "F3"}

\* C14: for every loaded collection the tables hold, for each label, the
\* number of records whose topics (podcast_formats) contain it, a record
\* with several labels adding one to each; a label in no record has no
\* entry, and the empty collection gives the empty table.
C14_AggregatorCounts ==
    Rendered =>
        /\ DOMAIN topicStats = {l \in TopicLabels : TopicCount(surveys, l) > 0}
        /\ \A l \in DOMAIN topicStats : topicStats[l] = TopicCount(surveys, l)
        /\ DOMAIN formatStats = {l \in FormatLabels : FormatCount(surveys, l) > 0}
        /\ \A l \in DOMAIN formatStats : formatStats[l] = FormatCount(surveys, l)
        /\ surveys = << >> => topicStats = EmptyStats /\ formatStats = EmptyStats

\* Several records, one of them with two topics, and a format in none.
C14_Witness ==
    /\ Rendered
    /\ Len(surveys) >= 2
    /\ \E k \in DOMAIN surveys : Len(surveys[k].topics) = 2
    /\ "F2" \notin DOMAIN formatStats
    /\ topicStats["T1"] >= 2

\* ---------------------------------------------------------------- C15
\* The sum of the counts of a table.
RECURSIVE SumOver(_, _)
SumOver(stats, labels) ==
    IF labels = {} THEN 0
    ELSE LET l == CHOOSE x \in labels : TRUE
         IN  stats[l] + SumOver(stats, labels \ {l})

SumStats(stats) == SumOver(stats, DOMAIN stats)

\* C15: for each of the two fields, the counts of the table sum to at
\* least the number of records, and to exactly that number if and only if
\* every record has exactly one value in the field.
C15_SumAtLeastRecords ==
    Rendered =>
        /\ SumStats(topicStats) >= Len(surveys)
        /\ SumStats(topicStats) = Len(surveys)
               <=> \A k \in DOMAIN surveys : Cardinality(Range(surveys[k].topics)) = 1
        /\ SumStats(formatStats) >= Len(surveys)
        /\ SumStats(formatStats) = Len(surveys)
               <=> \A k \in DOMAIN surveys :
                       Cardinality(Range(surveys[k].podcast_formats)) = 1

\* Several records with one topic each, one of them with two formats.
C15_Witness ==
    /\ Rendered
    /\ Len(surveys) >= 2
    /\ SumStats(topicStats) = Len(surveys)
    /\ SumStats(formatStats) > Len(surveys)
\* ---------------------------------------------------------------- C16
\* A page navigation step: one of the four buttons, or goToPage(n) itself.
PageNavigation ==
    \/ ClickFirst
    \/ ClickPrev
    \/ ClickNext
    \/ ClickLast
    \/ \E n \in PageArgs : CallGoToPage(n)

\* C16: a page navigation step (first, previous, next, last, goToPage(n))
\* changes currentPage only: the filter state, the selection, the records,
\* the filtered view and the stats tables stay as they were.  (Stated by
\* contraposition: a step that changes one of these is no navigation step.)
C16_NavigationChangesPageOnly ==
    [][~ UNCHANGED << topicFilter, formatFilter, searchTerm, deleteItems,
                      surveys, filteredSurveys, topicStats, formatStats >>
          => ~PageNavigation]_vars

\* Page 2 is shown while a record of page 1 is marked.
C16_Witness ==
    /\ Rendered
    /\ currentPage = 2
    /\ \E k \in DOMAIN deleteItems :
           deleteItems[k] \in Ids(SliceOfPage(filteredSurveys, 1))

\* ---------------------------------------------------------------- C17
\* A click on a card or on its checkbox.
ToggleStep ==
    \E pos \in 1..itemsPerPage : CardClick(pos) \/ CheckboxClick(pos)

\* C17: marking, unmarking or toggling a record changes the selection
\* only: the filter state, the current page, the records, the filtered
\* view and the stats tables stay as they were.  (Stated by contraposition:
\* a step that changes one of these is no toggle step.)
C17_ToggleChangesSelectionOnly ==
    [][~ UNCHANGED << topicFilter, formatFilter, searchTerm, currentPage,
                      surveys, filteredSurveys, topicStats, formatStats >>
          => ~ToggleStep]_vars

\* A record was marked on page 2 after another one had been marked.
C17_Witness ==
    /\ Rendered
    /\ currentPage = 2
    /\ Len(deleteItems) = 2
    /\ deleteItems[2] \in Ids(currentSurveys)
\* ---------------------------------------------------------------- C18
\* C18: whatever the selection and the id, toggling the id twice brings its
\* membership back to what it was, and a toggle of one id changes the
\* membership of no other id.
C18_ToggleTwiceRestores ==
    \A id \in 1..MaxRecords :
        LET once == ToggleItem(deleteItems, id)
            twice == ToggleItem(once, id)
        IN  /\ arrayIncludes(once, id) <=> ~arrayIncludes(deleteItems, id)
            /\ arrayIncludes(twice, id) <=> arrayIncludes(deleteItems, id)
            /\ \A other \in (1..MaxRecords) \ {id} :
                   arrayIncludes(once, other) <=> arrayIncludes(deleteItems, other)

\* Two records are marked, the older one first.
C18_Witness ==
    /\ Rendered
    /\ Len(deleteItems) = 2
    /\ deleteItems[1] < deleteItems[2]

\* ---------------------------------------------------------------- C19
\* C19: in every reachable state each id occurs at most once in
\* deleteItems, so that the n of "Delete Selected (n)", deleteItems.length,
\* is the number of distinct marked records; a click on a checkbox, which
\* runs both its onChange and the card's onClick, is no exception.
C19_SelectionIsASet ==
    /\ \A j, k \in DOMAIN deleteItems : j # k => deleteItems[j] # deleteItems[k]
    /\ Len(deleteItems) = Cardinality(Range(deleteItems))

\* Two records are marked, the newer one first.
C19_Witness ==
    /\ Rendered
    /\ Len(deleteItems) = 2
    /\ deleteItems[1] > deleteItems[2]

\* ---------------------------------------------------------------- C20
\* C20: once the fetch of the mount has failed with a store error, the
\* dashboard has no records, an empty filtered view, empty stats tables and
\* loading = false, and no further fetch is under way.
C20_FailedFetchLeavesEmpty ==
    (phase = "mounted" /\ FetchErrorMessage \in consoleErrors) =>
        /\ surveys = << >>
        /\ filteredSurveys = << >>
        /\ topicStats = EmptyStats
        /\ formatStats = EmptyStats
        /\ ~loading
        /\ ~fetchPending

\* The fetch has failed and the (empty) dashboard is rendered.
C20_Witness ==
    /\ phase = "mounted"
    /\ FetchErrorMessage \in consoleErrors
    /\ ~authPending
\* ------------------------------------------- several requests in flight
\* A dashboard over a table of MaxRaceRecords records, where the user marks
\* and deletes while up to MaxRacePending delete requests are awaited; the
\* answers come in any order.
NextRace ==
    \/ Mount /\ Elsewhere
    \/ fetchSurveys(FALSE, StoreList(MaxRaceRecords)) /\ Elsewhere
    \/ \E pos \in 1..itemsPerPage : CardClick(pos) /\ Elsewhere
    \/ \E pos \in 1..itemsPerPage : CheckboxClick(pos) /\ Elsewhere
    \/ DeleteDeclined /\ Elsewhere
    \/ RequestDelete(MaxRacePending) /\ Elsewhere
    \/ \E ids \in BagToSet(pendingDeletes), error \in BOOLEAN :
           handleDeleteSurvey(ids, error) /\ Elsewhere

SpecRace == InitDashboard /\ [][NextRace]_vars

\* ---------------------------------------------------------------- C22
\* C22: no delete request is ever sent with an empty array of ids (the
\* Delete Selected button is there only while something is marked).
C22_NoEmptyDeleteRequest ==
    \A ids \in BagToSet(pendingDeletes) : Len(ids) > 0

\* A delete request is being awaited.
C22_Witness ==
    /\ Rendered
    /\ BagCardinality(pendingDeletes) > 0

\* ---------------------------------------------------------------- C23
\* The records are in created_at-descending order.
NewestFirst(svs) ==
    \A j, k \in DOMAIN svs : j < k => svs[j].created_at > svs[k].created_at

\* C23: loading is true from the mount until the fetch responds; once it
\* has responded (with data or with an error) loading is false and stays
\* false as long as the dashboard lives; the records are then in the
\* store's created_at-descending order.
C23_LoadingUntilFetchResponds ==
    /\ [](phase = "constructed" => loading)
    /\ [](phase = "mounted" => (loading <=> fetchPending))
    /\ [](phase = "mounted" /\ ~loading => NewestFirst(surveys))
    /\ [][phase' = "mounted" /\ ~loading => ~loading']_vars
    /\ [][phase' = "mounted" /\ ~fetchPending' /\ fetchPending
            /\ FetchErrorMessage \notin consoleErrors'
            => \E n \in StoreSizes : surveys' = StoreList(n)]_vars

\* The fetch has answered with all the records and the user has gone on.
C23_Witness ==
    /\ phase = "mounted"
    /\ ~loading
    /\ ~fetchPending
    /\ Len(surveys) = MaxRecords
    /\ currentPage = 2

\* ---------------------------------------------------------------- C24
\* One of the three filter inputs or the Clear Filters button.
FilterInput ==
    \/ \E v \in TopicChoices : setTopicFilter(v)
    \/ \E v \in FormatChoices : setFormatFilter(v)
    \/ \E v \in SearchTerms : setSearchTerm(v)
    \/ ClearFilters

\* C24: the filter state starts unconstrained; while the dashboard lives
\* only the three filter inputs and Clear Filters change it (load, page
\* navigation, toggles and bulk deletes, successful or not, do not), and
\* Clear Filters leaves it unconstrained.
C24_FilterStateFrame ==
    /\ [](phase = "constructed" => Unconstrained)
    /\ [][phase' = "mounted" /\ ~ UNCHANGED << topicFilter, formatFilter, searchTerm >>
            => FilterInput]_vars
    /\ [][ClearFilters => Unconstrained']_vars

\* A constrained filter state has outlived a successful and a failed delete.
C24_Witness ==
    /\ Rendered
    /\ ~Unconstrained
    /\ Len(surveys) < MaxRecords
    /\ DeleteErrorMessage \in consoleErrors

\* ---------------------------------------------------------------- C29
\* C29: when the user declines the confirmation, no delete request is sent
\* and the records, the selection, the filter state and currentPage are
\* unchanged.
C29_DeclinedDeleteChangesNothing ==
    [][DeleteDeclined =>
          UNCHANGED << pendingDeletes, surveys, deleteItems, topicFilter,
                       formatFilter, searchTerm, currentPage >>]_vars

\* The confirmation can be (and was) declined: two records are marked, the
\* button is shown and no request is awaited.
C29_Witness ==
    /\ DeleteShown
    /\ Len(deleteItems) = 2
    /\ pendingDeletes = EmptyBag
    /\ Len(surveys) = MaxRecords
    /\ consoleErrors = {}
\* ---------------------------------------------------------------- C27
\* C27: in every reachable state, also while delete requests are awaited
\* and after they were answered in any order, every marked id is the id of
\* a record of surveys.
C27_SelectionWithinRecords ==
    Range(deleteItems) \subseteq Ids(surveys)

\* Records were deleted, something is marked again and two requests are
\* awaited.
C27_Witness ==
    /\ Rendered
    /\ Len(surveys) < MaxRaceRecords
    /\ deleteItems # << >>
    /\ BagCardinality(pendingDeletes) = 2

\* ---------------------------------------------------------------- C28
\* svs without the records whose id is in ids, the others in their order.
Without(svs, ids) == SelectSeq(svs, LAMBDA s : s.id \notin Range(ids))

\* C28: a request carries the ids marked when it was made; its success
\* removes exactly these ids from the records, whatever is marked by then,
\* the other records staying in their order; and once loaded the records
\* change by such a removal only, so the set of their ids never grows.
C28_DeleteRemovesExactlyRequested ==
    /\ [][BagCardinality(pendingDeletes') > BagCardinality(pendingDeletes)
            => pendingDeletes' = pendingDeletes (+) SetToBag({deleteItems})]_vars
    /\ [][\A ids \in BagToSet(pendingDeletes) :
              handleDeleteSurvey(ids, FALSE) => surveys' = Without(surveys, ids)]_vars
    /\ [][phase' = "mounted" /\ ~loading /\ surveys' # surveys
            => /\ Ids(surveys') \subseteq Ids(surveys)
               /\ \E ids \in BagToSet(pendingDeletes) :
                      /\ pendingDeletes' = pendingDeletes (-) SetToBag({ids})
                      /\ surveys' = Without(surveys, ids)]_vars

\* A request made when its records were all there is still awaited after
\* another one removed one of them, and something else is marked by now.
C28_Witness ==
    /\ Rendered
    /\ deleteItems # << >>
    /\ \E ids \in BagToSet(pendingDeletes) :
           /\ ~(Range(ids) \subseteq Ids(surveys))
           /\ Range(ids) \cap Ids(surveys) # {}
           /\ ids # deleteItems
\* ---------------------------------------------------------------- C21
\* C21: a submit with no topic or with no podcast format ticked sends no
\* insert request, sets a validation message and leaves the form data and
\* the loading flag as they were.
C21_InvalidSubmitSendsNothing ==
    [][handleSubmit /\ (formData.topics = << >> \/ formData.podcast_formats = << >>)
          => /\ insertRequests' = insertRequests
             /\ formError' \in {TopicMessage, FormatMessage}
             /\ formData' = formData
             /\ formLoading' = formLoading]_pageVars

\* A submit with a topic but without a format was turned down.
C21_Witness ==
    /\ formError = FormatMessage
    /\ formData.topics # << >>
    /\ formData.podcast_formats = << >>
    /\ insertRequests = << >>
    /\ ~formLoading

\* ---------------------------------------------------------------- C25
\* C25: when the insert fails, the error message is set, success stays
\* false, the form data is kept and loading is false again; when it
\* succeeds, success is true, error is empty, the form data is reset and
\* loading is false again.  Success and a non-empty error are never set
\* together.
C25_InsertOutcome ==
    /\ [](~(formSuccess /\ formError # ""))
    /\ [][\A outcome \in InsertOutcomes \ {"ok"} :
              handleSubmitResumed(outcome)
                  => /\ formError' # ""
                     /\ ~formSuccess'
                     /\ formData' = formData
                     /\ ~formLoading']_pageVars
    /\ [][handleSubmitResumed("ok")
              => /\ formSuccess'
                 /\ formError' = ""
                 /\ formData' = EmptyForm
                 /\ ~formLoading']_pageVars

\* An insert has failed: the message of the store is shown over the data
\* the user entered.
C25_Witness ==
    /\ formError = StoreMessage
    /\ ~formSuccess
    /\ ~formLoading
    /\ formData.topics # << >>
    /\ formData.podcast_formats # << >>
    /\ formData.suggested_guest # << >>

\* ---------------------------------------------------------------- C26
\* C26: whatever was persisted under "theme", theme is 'light' or 'dark' in
\* every reachable state; toggleTheme switches between the two, so that two
\* toggles give the mode back; and after each change the persisted value
\* is the current mode.
C26_ThemeTwoValued ==
    /\ theme \in {"light", "dark"}
    /\ Toggled(Toggled(theme)) = theme
    /\ themeMounted => storedTheme = {theme}

\* ---------------------------------------------------------------- C30
\* C30: at most one insert request is awaited at any time; loading is true
\* exactly while one is; no submit happens while loading is true; and the
\* answer to the request, whatever it is, leaves loading false.
C30_OneInsertAtATime ==
    /\ [](Len(insertRequests) <= 1)
    /\ [](formLoading <=> insertRequests # << >>)
    /\ [][handleSubmit => ~formLoading]_pageVars
    /\ [][\A outcome \in InsertOutcomes :
              handleSubmitResumed(outcome) => ~formLoading']_pageVars

\* An insert is awaited while the user has gone on editing the form.
C30_Witness ==
    /\ formLoading
    /\ Len(insertRequests) = 1
    /\ formData.topics # insertRequests[1].topics
    /\ formData.name # insertRequests[1].name

====
